---------------------------- MODULE Spec2Model ----------------------------
(***************************************************************************)
(* A model of ImageVectorizer.extract_segments (src/app/vectorize.py): the *)
(* raster-to-vector pipeline that turns an image into Segments in the      *)
(* CAD_BOX of the drawing sheet.                                           *)
(*                                                                         *)
(* The image library (cv2 / numpy) is the environment: each stage that     *)
(* calls it draws the library's answer from a small set.  Everything the   *)
(* Python code itself computes is computed here as the code computes it.   *)
(*                                                                         *)
(* Numbers.  Pixel coordinates are floats holding integers (the detector   *)
(* returns integers and snap_angle keeps them integral), so they are       *)
(* Integers here.  Sheet coordinates are rationals: scale is the fraction  *)
(* scale.num / scale.den and a Segment holds the numerators of its         *)
(* coordinates over scale.den.  The arithmetic is exact; the floats of the *)
(* code differ from it by rounding only.                                   *)
(***************************************************************************)
EXTENDS Integers, Sequences, FiniteSets, TLC

VARIABLES
    CAD_BOX,        \* the module-level target box (vectorize.py:7)
    pc,             \* position of the current invocation
    max_segments,   \* the argument of the current invocation
    cv2,            \* outcome of `import cv2, numpy`
    img,            \* what cv2.imread returned
    npix,           \* len(xs): foreground pixels of the cleaned mask
    box,            \* min_x, max_x, min_y, max_y
    lines,          \* what cv2.HoughLinesP returned (roi coordinates)
    raw,            \* the raw candidates (image coordinates)
    uniq,           \* the dedup dict, in insertion order
    segs,           \* the candidates after list(), sort and cap
    scale,          \* the uniform scale factor, a fraction
    result,         \* the returned list of Segment
    ret,            \* the line of the return statement taken (0: none yet)
    ran,            \* the stages the current invocation has executed
    first,          \* the first recorded invocation: its input and outcome
    bw,             \* _skeletonize: the mask passed in (its foreground pixels)
    skel,           \* _skeletonize: the skeleton collected so far
    sk_img,         \* _skeletonize: its local img, the mask being thinned
    sk_iter,        \* _skeletonize: iterations of the loop completed
    sk_pc,          \* _skeletonize: position of the call
    cleaned,        \* the cleaned mask (its foreground pixels, image coordinates)
    package,        \* engine / exporter: the package being built or exported
    origin,         \* who called KompasExporter.export: the engine or another caller
    k_pc,           \* position in DrawingEngine / KompasExporter
    cdw_file,       \* the file at native_cdw_path
    spw_file,       \* the file at native_spw_path
    created_by,     \* the interface whose _create_cdw returned True
    drawn,          \* per interface, the entries counted by _draw_segments_on_object
    errors,         \* _try_create_native_documents: its list errors
    export_result,  \* the KompasExportResult returned
    files,          \* the files written to output_dir by this call
    warnings,       \* _persist_artifacts: its list warnings
    build_result    \* the BuildResult returned

vars == <<CAD_BOX, pc, max_segments, cv2, img, npix, box, lines, raw, uniq,
          segs, scale, result, ret, ran, first,
          bw, skel, sk_img, sk_iter, sk_pc, cleaned,
          package, origin, k_pc, cdw_file, spw_file, created_by, drawn,
          errors, export_result, files, warnings, build_result>>

\* the state of extract_segments and the state of _skeletonize
pipevars == <<CAD_BOX, pc, max_segments, cv2, img, npix, box, lines, raw,
              uniq, segs, scale, result, ret, ran, first>>

skelvars == <<bw, skel, sk_img, sk_iter, sk_pc>>

\* the state of DrawingEngine and KompasExporter
kompasvars == <<package, origin, k_pc, cdw_file, spw_file, created_by, drawn,
                errors, export_result, files, warnings, build_result>>

\* what an action of extract_segments, and one of _skeletonize, leaves alone
besides_extract == <<skelvars, cleaned, kompasvars>>

besides_skeletonize == <<pipevars, cleaned, kompasvars>>

\* what an action of the engine or the exporter leaves alone
besides_kompas == <<pipevars, skelvars, cleaned>>

locals == <<cv2, img, npix, box, lines, raw, uniq, segs, scale, result>>

-----------------------------------------------------------------------------
(* Bounds of the model *)

\* the longest list of lines the detector returns
MaxLines == 2

\* width and height of the masks given to _skeletonize
GridW == 3

GridH == 3

\* width and height of the images whose foreground is located
RegionW == 81

RegionH == 2

\* values of the locals before the code assigns them
NoBox == [min_x |-> 0, max_x |-> 0, min_y |-> 0, max_y |-> 0]

NoScale == [num |-> 0, den |-> 1]

-----------------------------------------------------------------------------
(* Arithmetic helpers *)

Abs(n) == IF n < 0 THEN -n ELSE n

Min2(a, b) == IF a <= b THEN a ELSE b

Max2(a, b) == IF a >= b THEN a ELSE b

Sq(n) == n * n

RECURSIVE SeqMin(_)
SeqMin(s) == IF Len(s) = 1 THEN s[1] ELSE Min2(s[1], SeqMin(Tail(s)))

RECURSIVE SeqMax(_)
SeqMax(s) == IF Len(s) = 1 THEN s[1] ELSE Max2(s[1], SeqMax(Tail(s)))

\* int(a * p / q) for a >= 0: Python's int() truncates
IntFrac(a, p, q) == (a * p) \div q

\* round(x / 2) for an integral x: Python rounds halves to the even integer
round_half(x) ==
    IF x % 2 = 0 THEN x \div 2
    ELSE LET f == (x - 1) \div 2 IN IF f % 2 = 0 THEN f ELSE f + 1

-----------------------------------------------------------------------------
(* The environment: what the image library can answer *)

\* img.shape of the decoded image (rows, columns)
ImageShapes == {<<100, 100>>, <<600, 401>>}

\* stats[i, CC_STAT_AREA] of the connected components 1..num_labels-1,
\* and the foreground bounding boxes an image of such components can have
ComponentAreas == {<< >>, <<79>>, <<100>>, <<79, 200>>, <<200>>}

Boxes ==
    { [min_x |-> 0,  max_x |-> 16,  min_y |-> 1, max_y |-> 13],
      [min_x |-> 5,  max_x |-> 85,  min_y |-> 3, max_y |-> 73],
      [min_x |-> 2,  max_x |-> 14,  min_y |-> 2, max_y |-> 14],
      [min_x |-> 10, max_x |-> 209, min_y |-> 5, max_y |-> 5] }

\* the line segments the detector can report, in roi coordinates
HoughPool ==
    { <<1, 2, 10, 2>>,      \* horizontal
      <<10, 2, 1, 2>>,      \* the same, endpoints swapped
      <<0, 2, 10, 3>>,      \* 5.7 degrees: snaps to horizontal
      <<3, 1, 3, 10>>,      \* vertical
      <<3, 1, 4, 10>>,      \* 6.3 degrees from vertical
      <<2, 1, 10, 9>>,      \* 45 degrees
      <<1, 5, 11, 5>>,      \* horizontal, with the midpoint of the line above
      <<1, 1, 10, 9>>,      \* 41.6 degrees: snaps to the diagonal
      <<10, 1, 2, 10>>,     \* 131.6 degrees: snaps to the anti-diagonal
      <<5, 9, 0, 3>>,       \* 129.8 degrees, snaps past the left edge
      <<2, 3, 12, 7>>,      \* 21.8 degrees: outside every window
      <<1, 5, 4, 5>>,       \* shorter than min_len
      <<0, 0, 15, 11>>,     \* longer than max_len
      <<0, 3, 0, 11>>,      \* on the left edge
      <<2, 0, 12, 0>>,      \* on the top edge
      <<3, 4, 9, 9>>,       \* 39.8 degrees, 7.8 long before the snap
      <<0, 6, 15, 8>>,      \* 7.6 degrees, 15.1 long before the snap
      <<79, 10, 79, 30>> }  \* in the last column of a roi 80 wide

\* lines lie inside the roi, whose shape is (max_y - min_y, max_x - min_x)
InRoi(l, b) ==
    /\ l[1] < b.max_x - b.min_x /\ l[3] < b.max_x - b.min_x
    /\ l[2] < b.max_y - b.min_y /\ l[4] < b.max_y - b.min_y

RoiLines(b) == {l \in HoughPool : InRoi(l, b)}

SeqsUpTo(S, n) == UNION {[1..k -> S] : k \in 1..n}

\* the four sides of a rectangle outline that fills the roi
RectangleSides(b) ==
    LET r == b.max_x - b.min_x - 1
        t == b.max_y - b.min_y - 1
    IN  << <<0, 0, r, 0>>, <<r, 0, r, t>>, <<r, t, 0, t>>, <<0, t, 0, 0>> >>

\* one line from corner to corner of the roi
CornerToCorner(b) ==
    << <<0, 0, b.max_x - b.min_x - 1, b.max_y - b.min_y - 1>> >>

\* the lines of the two scenarios: a rectangle outline, and in a square
\* region a 45-degree line
ScenarioLines(b) ==
    {RectangleSides(b)}
        \cup (IF b.max_x - b.min_x = b.max_y - b.min_y
              THEN {CornerToCorner(b)} ELSE {})

\* what the detector can return for the roi of b: None (the empty
\* sequence) or a non-empty array of lines
DetectorAnswers(b) ==
    {<< >>} \cup SeqsUpTo(RoiLines(b), MaxLines) \cup ScenarioLines(b)

-----------------------------------------------------------------------------
(* snap_angle (vectorize.py:98-112) *)

\* ang = abs(degrees(atan2(dy, dx))) % 180 is compared with 8, 82, 38 and
\* 52 degrees through the tangent: tan 8 = 0.1405408..., tan 38 =
\* 0.7812856..., tan 52 = 1.2799416..., here over TanDen.  No ratio of two
\* integers up to 400 lies between a tangent and its fraction.
TanDen == 1000000
Tan8 == 140541
Tan38 == 781286
Tan52 == 1279942

\* ang < 8 or ang > 172 (atan2(0, 0) is 0, and 180 % 180 is 0)
IsHorizontal(dx, dy) ==
    \/ dx = 0 /\ dy = 0
    \/ Abs(dy) * TanDen < Tan8 * Abs(dx)

\* 82 < ang < 98
IsVertical(dx, dy) == Abs(dx) * TanDen < Tan8 * Abs(dy)

\* 38 < ang < 52 or 128 < ang < 142
IsDiagonal(dx, dy) ==
    /\ Tan38 * Abs(dx) < Abs(dy) * TanDen
    /\ Abs(dy) * TanDen < Tan52 * Abs(dx)

\* snap_angle with `ang < 8 and ang > 172`: the horizontal branch is dead
snap_angle_no_horizontal(s) ==
    LET dx == s[3] - s[1]
        dy == s[4] - s[2]
        signx == IF dx >= 0 THEN 1 ELSE -1
        signy == IF dy >= 0 THEN 1 ELSE -1
        m == Max2(Abs(dx), Abs(dy))
    IN  IF IsVertical(dx, dy) THEN <<s[1], s[2], s[1], s[4]>>
        ELSE IF IsDiagonal(dx, dy) THEN <<s[1], s[2], s[1] + signx * m, s[2] + signy * m>>
        ELSE s

\* snap_angle whose diagonal branch moves x2 only
snap_angle_diag_x_only(s) ==
    LET dx == s[3] - s[1]
        dy == s[4] - s[2]
        signx == IF dx >= 0 THEN 1 ELSE -1
        m == Max2(Abs(dx), Abs(dy))
    IN  IF IsHorizontal(dx, dy) THEN <<s[1], s[2], s[3], s[2]>>
        ELSE IF IsVertical(dx, dy) THEN <<s[1], s[2], s[1], s[4]>>
        ELSE IF IsDiagonal(dx, dy) THEN <<s[1], s[2], s[1] + signx * m, s[4]>>
        ELSE s

snap_angle(s) ==
    LET x1 == s[1]
        y1 == s[2]
        dx == s[3] - s[1]
        dy == s[4] - s[2]
        signx == IF dx >= 0 THEN 1 ELSE -1
        signy == IF dy >= 0 THEN 1 ELSE -1
        m == Max2(Abs(dx), Abs(dy))
    IN  IF IsHorizontal(dx, dy) THEN <<x1, y1, s[3], y1>>
        ELSE IF IsVertical(dx, dy) THEN <<x1, y1, x1, s[4]>>
        ELSE IF IsDiagonal(dx, dy) THEN <<x1, y1, x1 + signx * m, y1 + signy * m>>
        ELSE s

-----------------------------------------------------------------------------
(* The filter loop (vectorize.py:94-134) *)

\* math.hypot(x2 - x1, y2 - y1) squared
Len2(s) == Sq(s[3] - s[1]) + Sq(s[4] - s[2])

\* diag squared (vectorize.py:94)
Diag2(b) == Sq(b.max_x - b.min_x) + Sq(b.max_y - b.min_y)

\* length < min_len, min_len = max(8.0, diag * 0.03)
TooShort(s, b) == Len2(s) < 64 \/ 10000 * Len2(s) < 9 * Diag2(b)

\* max_len without its fraction: max_len = diag
TooLong_diag(s, b) == Len2(s) > Diag2(b)

\* length > max_len, max_len = diag * 0.75
TooLong(s, b) == 16 * Len2(s) > 9 * Diag2(b)

margin_x(b) == IntFrac(b.max_x - b.min_x, 15, 1000)

margin_y(b) == IntFrac(b.max_y - b.min_y, 15, 1000)

\* the test of line 125 with `or` between the two endpoints
OnVerticalEdge_either(s, b) ==
    \/ s[1] <= b.min_x + margin_x(b) \/ s[3] <= b.min_x + margin_x(b)
    \/ s[1] >= b.max_x - margin_x(b) \/ s[3] >= b.max_x - margin_x(b)

\* vectorize.py:125
OnVerticalEdge(s, b) ==
    \/ s[1] <= b.min_x + margin_x(b) /\ s[3] <= b.min_x + margin_x(b)
    \/ s[1] >= b.max_x - margin_x(b) /\ s[3] >= b.max_x - margin_x(b)

\* vectorize.py:127
OnHorizontalEdge(s, b) ==
    \/ s[2] <= b.min_y + margin_y(b) /\ s[4] <= b.min_y + margin_y(b)
    \/ s[2] >= b.max_y - margin_y(b) /\ s[4] >= b.max_y - margin_y(b)

\* the snapped candidate reaches the dict
Survives(s, b) ==
    /\ ~TooShort(s, b) /\ ~TooLong(s, b)
    /\ ~OnVerticalEdge(s, b) /\ ~OnHorizontalEdge(s, b)

\* tuples compare lexicographically
PairLeq(a, b) == a[1] < b[1] \/ (a[1] = b[1] /\ a[2] <= b[2])

\* the key without the ordering of the endpoints
CanonicalKey_directed(s) ==
    <<round_half(s[1]), round_half(s[2]), round_half(s[3]), round_half(s[4])>>

\* vectorize.py:130-133
CanonicalKey(s) ==
    LET a == <<round_half(s[1]), round_half(s[2])>>
        b == <<round_half(s[3]), round_half(s[4])>>
    IN  IF PairLeq(a, b) THEN <<a[1], a[2], b[1], b[2]>>
        ELSE <<b[1], b[2], a[1], a[2]>>

\* a key already held keeps its first value
DictPut_first_wins(d, key, val, i) ==
    IF \E j \in 1..Len(d) : d[j].key = key
    THEN d
    ELSE Append(d, [key |-> key, val |-> val, src |-> i])

\* uniq[key] = value: a dict keeps the position of a key it already holds.
\* An entry also records src, the index in raw of the candidate last
\* written under the key.
DictPut(d, key, val, i) ==
    IF \E j \in 1..Len(d) : d[j].key = key
    THEN [j \in 1..Len(d) |->
            IF d[j].key = key THEN [key |-> key, val |-> val, src |-> i] ELSE d[j]]
    ELSE Append(d, [key |-> key, val |-> val, src |-> i])

\* the loop over raw, from candidate i on
RECURSIVE FilterLoop(_, _, _, _)
FilterLoop(rw, b, d, i) ==
    IF i > Len(rw) THEN d
    ELSE LET s == snap_angle(rw[i])
         IN  IF Survives(s, b)
             THEN FilterLoop(rw, b, DictPut(d, CanonicalKey(s), s, i), i + 1)
             ELSE FilterLoop(rw, b, d, i + 1)

-----------------------------------------------------------------------------
(* Ordering and cap (vectorize.py:136-141) *)

\* list(uniq.values()); each value keeps the src of its dict entry
Values(d) == [j \in 1..Len(d) |-> [val |-> d[j].val, src |-> d[j].src]]

\* the sort key: (vertical midpoint, horizontal midpoint, -length).  The
\* midpoints are compared through the sums, the lengths through the squares.
SortKey(e) == <<e.val[2] + e.val[4], e.val[1] + e.val[3], -Len2(e.val)>>

\* the comparison with the shorter candidate first
KeyLess_shorter_first(a, b) ==
    \/ a[1] < b[1]
    \/ a[1] = b[1] /\ a[2] < b[2]
    \/ a[1] = b[1] /\ a[2] = b[2] /\ a[3] > b[3]

KeyLess(a, b) ==
    \/ a[1] < b[1]
    \/ a[1] = b[1] /\ a[2] < b[2]
    \/ a[1] = b[1] /\ a[2] = b[2] /\ a[3] < b[3]

\* e goes behind every element that does not sort after it
RECURSIVE InsertSorted(_, _)
InsertSorted(e, s) ==
    IF s = << >> THEN <<e>>
    ELSE IF KeyLess(SortKey(e), SortKey(Head(s))) THEN <<e>> \o s
    ELSE <<Head(s)>> \o InsertSorted(e, Tail(s))

\* list.sort is stable
RECURSIVE SortFrom(_, _, _)
SortFrom(s, i, acc) ==
    IF i > Len(s) THEN acc ELSE SortFrom(s, i + 1, InsertSorted(s[i], acc))

Sorted(s) == SortFrom(s, 1, << >>)

\* the cap left out
Slice_nocap(s, m) == s

\* s[:m]: a negative m counts from the end
Slice(s, m) ==
    LET k == IF m >= 0 THEN Min2(m, Len(s)) ELSE Max2(Len(s) + m, 0)
    IN  SubSeq(s, 1, k)

-----------------------------------------------------------------------------
(* Normalization (vectorize.py:143-161) *)

xs2(s) == [j \in 1..(2 * Len(s)) |->
            IF j <= Len(s) THEN s[j].val[1] ELSE s[j - Len(s)].val[3]]

ys2(s) == [j \in 1..(2 * Len(s)) |->
            IF j <= Len(s) THEN s[j].val[2] ELSE s[j - Len(s)].val[4]]

\* the extent taken as it is
span_x_nofloor(s) == SeqMax(xs2(s)) - SeqMin(xs2(s))

\* span_x = max(1.0, sx1 - sx0)
span_x(s) == Max2(1, SeqMax(xs2(s)) - SeqMin(xs2(s)))

span_y(s) == Max2(1, SeqMax(ys2(s)) - SeqMin(ys2(s)))

\* the larger of the two ratios
Scale_max(cb, s) ==
    IF cb.w * span_y(s) >= cb.h * span_x(s)
    THEN [num |-> cb.w, den |-> span_x(s)]
    ELSE [num |-> cb.h, den |-> span_y(s)]

\* scale = min(w / span_x, h / span_y), as a fraction
Scale(cb, s) ==
    IF cb.w * span_y(s) <= cb.h * span_x(s)
    THEN [num |-> cb.w, den |-> span_x(s)]
    ELSE [num |-> cb.h, den |-> span_y(s)]

\* each axis stretched to its own side of the box
MapSegment_stretch(cb, s, sc, e) ==
    LET sx0 == SeqMin(xs2(s))
        sy1 == SeqMax(ys2(s))
    IN  [x1 |-> cb.x0 * sc.den + (e.val[1] - sx0) * cb.w,
         y1 |-> cb.y0 * sc.den + (sy1 - e.val[2]) * cb.h,
         x2 |-> cb.x0 * sc.den + (e.val[3] - sx0) * cb.w,
         y2 |-> cb.y0 * sc.den + (sy1 - e.val[4]) * cb.h,
         src |-> e.src]

\* the vertical axis measured from the top, not flipped
MapSegment_noflip(cb, s, sc, e) ==
    LET sx0 == SeqMin(xs2(s))
        sy0 == SeqMin(ys2(s))
    IN  [x1 |-> cb.x0 * sc.den + (e.val[1] - sx0) * sc.num,
         y1 |-> cb.y0 * sc.den + (e.val[2] - sy0) * sc.num,
         x2 |-> cb.x0 * sc.den + (e.val[3] - sx0) * sc.num,
         y2 |-> cb.y0 * sc.den + (e.val[4] - sy0) * sc.num,
         src |-> e.src]

\* the Segment of a candidate: sc.den times its sheet coordinates
MapSegment(cb, s, sc, e) ==
    LET sx0 == SeqMin(xs2(s))
        sy1 == SeqMax(ys2(s))
    IN  [x1 |-> cb.x0 * sc.den + (e.val[1] - sx0) * sc.num,
         y1 |-> cb.y0 * sc.den + (sy1 - e.val[2]) * sc.num,
         x2 |-> cb.x0 * sc.den + (e.val[3] - sx0) * sc.num,
         y2 |-> cb.y0 * sc.den + (sy1 - e.val[4]) * sc.num,
         src |-> e.src]

\* abs(nx1 - nx2) + abs(ny1 - ny2) < 0.5
SubResolution(g, sc) == 2 * (Abs(g.x1 - g.x2) + Abs(g.y1 - g.y2)) < sc.den

\* the loop over segs
RECURSIVE MapLoop(_, _, _, _, _)
MapLoop(cb, s, sc, i, acc) ==
    IF i > Len(s) THEN acc
    ELSE LET g == MapSegment(cb, s, sc, s[i])
         IN  MapLoop(cb, s, sc, i + 1,
                     IF SubResolution(g, sc) THEN acc ELSE Append(acc, g))

-----------------------------------------------------------------------------
(* The state machine *)

\* max_segments: negative, zero, small, and the default of vectorize.py:40
MaxSegmentsValues == {-1, 0, 1, 2, 220}

\* the input of the current invocation: its argument and what the image
\* library answered for its image
Input == <<max_segments, cv2, img, npix, box, lines>>

\* how the current invocation ended
Outcome == <<pc, ret, result, scale>>

\* the invocations that are recorded in first when they are the first of
\* their kind to finish
ProbeLines ==
    { <<(<<1, 2, 10, 2>>), (<<3, 1, 4, 10>>)>> }

IsProbe == pc = "done" /\ max_segments = 220 /\ box.min_x = 0 /\ lines \in ProbeLines

\* no package, no result; output_dir holds no drawing
NoGeometry == [kind |-> "absent", entries |-> << >>]

NoPackage == [source |-> "none", geometry_segments |-> NoGeometry]

NoExportResult ==
    [success |-> FALSE,
     native_cdw_path |-> "None",
     native_spw_path |-> "None",
     fallback_cdw_payload_path |-> "None",
     fallback_spw_payload_path |-> "None",
     message |-> "not returned"]

NoBuildResult ==
    [package_path |-> "None",
     specification_path |-> "None",
     macro_template_path |-> "None",
     cdw_path |-> "None",
     spw_path |-> "None",
     fallback_cdw_payload_path |-> "None",
     fallback_spw_payload_path |-> "None",
     warnings |-> << >>,
     opened_in_kompas |-> FALSE,
     open_message |-> "not returned"]

\* on: the interfaces on which _draw_segments_on_object has run
NoDrawn == [v7 |-> << >>, v5 |-> << >>, on |-> {}]

KompasIdle ==
    /\ package = NoPackage
    /\ origin = "none"
    /\ k_pc = "idle"
    /\ cdw_file = "absent"
    /\ spw_file = "absent"
    /\ created_by = "none"
    /\ drawn = NoDrawn
    /\ errors = << >>
    /\ export_result = NoExportResult
    /\ files = {}
    /\ warnings = << >>
    /\ build_result = NoBuildResult

Init ==
    /\ CAD_BOX = [x0 |-> 30, y0 |-> 40, w |-> 150, h |-> 100]
    /\ pc = "idle"
    /\ max_segments = 220
    /\ cv2 = "unset"
    /\ img = "unset"
    /\ npix = 0
    /\ box = NoBox
    /\ lines = << >>
    /\ raw = << >>
    /\ uniq = << >>
    /\ segs = << >>
    /\ scale = NoScale
    /\ result = << >>
    /\ ret = 0
    /\ ran = {}
    /\ first = << >>
    /\ bw = {} /\ skel = {} /\ sk_img = {} /\ sk_iter = 0 /\ sk_pc = "idle"
    /\ cleaned = {}
    /\ KompasIdle

\* extract_segments is called: a new frame, no local is bound
Call ==
    /\ pc \in {"idle", "done", "raised"}
    /\ \E m \in MaxSegmentsValues : max_segments' = m
    /\ pc' = "import"
    /\ cv2' = "unset" /\ img' = "unset" /\ npix' = 0 /\ box' = NoBox
    /\ lines' = << >> /\ raw' = << >> /\ uniq' = << >> /\ segs' = << >>
    /\ scale' = NoScale /\ result' = << >>
    /\ ret' = 0
    /\ ran' = {}
    /\ first' = IF first = << >> /\ IsProbe
                THEN <<[input |-> Input, out |-> Outcome]>>
                ELSE first
    /\ UNCHANGED CAD_BOX
    /\ UNCHANGED besides_extract

\* return [] at the given line
ReturnEmpty(line) ==
    /\ result' = << >>
    /\ ret' = line
    /\ pc' = "done"

\* vectorize.py:41-45
Import ==
    /\ pc = "import"
    /\ ran' = ran \cup {"import"}
    /\ \E ok \in BOOLEAN :
        IF ok
        THEN /\ cv2' = "ok"
             /\ pc' = "imread"
             /\ UNCHANGED <<result, ret>>
        ELSE /\ cv2' = "ImportError"
             /\ ReturnEmpty(45)
    /\ UNCHANGED <<CAD_BOX, max_segments, img, npix, box, lines, raw, uniq,
                   segs, scale, first>>
    /\ UNCHANGED besides_extract

\* imread without the test for None
Imread_nocheck ==
    /\ pc = "imread"
    /\ ran' = ran \cup {"imread"}
    /\ \E r \in {"None", "image"} : img' = r
    /\ pc' = "locate"
    /\ UNCHANGED <<CAD_BOX, max_segments, cv2, npix, box, lines, raw, uniq,
                   segs, scale, result, ret, first>>
    /\ UNCHANGED besides_extract

\* vectorize.py:47-49
Imread ==
    /\ pc = "imread"
    /\ ran' = ran \cup {"imread"}
    /\ \E r \in {"None", "image"} :
        /\ img' = r
        /\ IF r = "None"
           THEN ReturnEmpty(49)
           ELSE pc' = "locate" /\ UNCHANGED <<result, ret>>
    /\ UNCHANGED <<CAD_BOX, max_segments, cv2, npix, box, lines, raw, uniq,
                   segs, scale, first>>
    /\ UNCHANGED besides_extract

\* min_area = max(80, int(rows * cols * 0.0005))
min_area(shape) == Max2(80, IntFrac(shape[1] * shape[2], 5, 10000))

\* the pixels of the components that are kept (vectorize.py:58-63)
RECURSIVE CleanedPixels(_, _)
CleanedPixels(areas, ma) ==
    IF areas = << >> THEN 0
    ELSE (IF Head(areas) >= ma THEN Head(areas) ELSE 0)
         + CleanedPixels(Tail(areas), ma)

\* a bounding box the n foreground pixels of an image of this shape can have
BoxFits(b, n, shape) ==
    /\ b.max_y < shape[1] /\ b.max_x < shape[2]
    /\ n <= (b.max_x - b.min_x + 1) * (b.max_y - b.min_y + 1)
    /\ n >= Max2(b.max_x - b.min_x, b.max_y - b.min_y) + 1

\* roi.size of roi = cleaned[min_y:max_y, min_x:max_x]
roi_size(b) == (b.max_y - b.min_y) * (b.max_x - b.min_x)

\* vectorize.py:51-71: blur, threshold, noise components, bounding box, crop
Locate ==
    /\ pc = "locate"
    /\ \E shape \in ImageShapes, areas \in ComponentAreas :
        LET n == CleanedPixels(areas, min_area(shape)) IN
        /\ npix' = n
        /\ IF n < 20
           THEN /\ ran' = ran \cup {"clean"}
                /\ ReturnEmpty(65)
                /\ UNCHANGED box
           ELSE /\ ran' = ran \cup {"clean", "region"}
                /\ \E b \in Boxes :
                    /\ BoxFits(b, n, shape)
                    /\ box' = b
                    /\ IF roi_size(b) = 0
                       THEN ReturnEmpty(71)
                       ELSE pc' = "detect" /\ UNCHANGED <<result, ret>>
    /\ UNCHANGED <<CAD_BOX, max_segments, cv2, img, lines, raw, uniq, segs,
                   scale, first>>
    /\ UNCHANGED besides_extract

\* vectorize.py:86-92: the lines moved from roi to image coordinates
RawOf(ls, b) ==
    [j \in 1..Len(ls) |->
        <<ls[j][1] + b.min_x, ls[j][2] + b.min_y,
          ls[j][3] + b.min_x, ls[j][4] + b.min_y>>]

\* vectorize.py:73-92: thinning and line detection; the detector returns
\* None (here the empty sequence) or a non-empty array of lines
Detect ==
    /\ pc = "detect"
    /\ ran' = ran \cup {"skeleton", "hough"}
    /\ \E ls \in DetectorAnswers(box) :
        /\ lines' = ls
        /\ IF ls = << >>
           THEN ReturnEmpty(83) /\ UNCHANGED raw
           ELSE /\ raw' = RawOf(ls, box)
                /\ pc' = "filter"
                /\ UNCHANGED <<result, ret>>
    /\ UNCHANGED <<CAD_BOX, max_segments, cv2, img, npix, box, uniq, segs,
                   scale, first>>
    /\ UNCHANGED besides_extract

\* the filter loop without the return on an empty dict
Filter_noexit ==
    /\ pc = "filter"
    /\ ran' = ran \cup {"filter", "dedup"}
    /\ uniq' = FilterLoop(raw, box, << >>, 1)
    /\ segs' = Values(uniq')
    /\ pc' = "order"
    /\ UNCHANGED <<CAD_BOX, max_segments, cv2, img, npix, box, lines, raw,
                   scale, result, ret, first>>
    /\ UNCHANGED besides_extract

\* vectorize.py:94-138: snap, length bounds, border exclusion, dedup
Filter ==
    /\ pc = "filter"
    /\ ran' = ran \cup {"filter", "dedup"}
    /\ uniq' = FilterLoop(raw, box, << >>, 1)
    /\ segs' = Values(uniq')
    /\ IF segs' = << >>
       THEN ReturnEmpty(138)
       ELSE pc' = "order" /\ UNCHANGED <<result, ret>>
    /\ UNCHANGED <<CAD_BOX, max_segments, cv2, img, npix, box, lines, raw,
                   scale, first>>
    /\ UNCHANGED besides_extract

\* vectorize.py:140-141
Order ==
    /\ pc = "order"
    /\ ran' = ran \cup {"order"}
    /\ segs' = Slice(Sorted(segs), max_segments)
    /\ pc' = "normalize"
    /\ UNCHANGED <<CAD_BOX, max_segments, cv2, img, npix, box, lines, raw,
                   uniq, scale, result, ret, first>>
    /\ UNCHANGED besides_extract

\* normalization that stores the fitted height in the module-level box
Normalize_writes_box ==
    /\ pc = "normalize"
    /\ ran' = ran \cup {"normalize"}
    /\ IF segs = << >> \/ span_x(segs) = 0 \/ span_y(segs) = 0
       THEN /\ pc' = "raised"
            /\ UNCHANGED <<CAD_BOX, scale, result, ret>>
       ELSE /\ scale' = Scale(CAD_BOX, segs)
            /\ result' = MapLoop(CAD_BOX, segs, scale', 1, << >>)
            /\ ret' = 161
            /\ pc' = "done"
            /\ CAD_BOX' = [CAD_BOX EXCEPT !.h = 50]
    /\ UNCHANGED <<max_segments, cv2, img, npix, box, lines, raw, uniq, segs,
                   first>>
    /\ UNCHANGED besides_extract

\* vectorize.py:143-161; min() of an empty list raises ValueError, and a
\* division by a zero span would raise ZeroDivisionError
Normalize ==
    /\ pc = "normalize"
    /\ ran' = ran \cup {"normalize"}
    /\ IF segs = << >> \/ span_x(segs) = 0 \/ span_y(segs) = 0
       THEN /\ pc' = "raised"
            /\ UNCHANGED <<scale, result, ret>>
       ELSE /\ scale' = Scale(CAD_BOX, segs)
            /\ result' = MapLoop(CAD_BOX, segs, scale', 1, << >>)
            /\ ret' = 161
            /\ pc' = "done"
    /\ UNCHANGED <<CAD_BOX, max_segments, cv2, img, npix, box, lines, raw,
                   uniq, segs, first>>
    /\ UNCHANGED besides_extract

Next ==
    \/ Call
    \/ Import
    \/ Imread
    \/ Locate
    \/ Detect
    \/ Filter
    \/ Order
    \/ Normalize

Spec == Init /\ [][Next]_vars

-----------------------------------------------------------------------------
(* _skeletonize (vectorize.py:21-38).  A mask is the set of its non-zero
   pixels. *)

\* the hard cap of the loop, range(300)
MaxIter == 300

Grid == (0..(GridW - 1)) \X (0..(GridH - 1))

\* cv2.MORPH_CROSS, 3 x 3: the pixel and its four neighbours
Cross(p) ==
    {p, <<p[1] - 1, p[2]>>, <<p[1] + 1, p[2]>>, <<p[1], p[2] - 1>>,
     <<p[1], p[2] + 1>>}

\* cv2.erode with the default border: pixels outside the image do not count
erode(m) == {p \in Grid : (Cross(p) \cap Grid) \subseteq m}

\* cv2.dilate with the default border
dilate(m) == {p \in Grid : Cross(p) \cap m # {}}

\* saturating subtraction of two 0/255 masks
subtract(a, b) == a \ b

bitwise_or(a, b) == a \cup b

countNonZero(m) == Cardinality(m)

\* the state after vectorize.py:25-27, for any mask of the grid
InitSkel ==
    /\ CAD_BOX = [x0 |-> 30, y0 |-> 40, w |-> 150, h |-> 100]
    /\ pc = "idle"
    /\ max_segments = 220
    /\ cv2 = "unset"
    /\ img = "unset"
    /\ npix = 0
    /\ box = NoBox
    /\ lines = << >>
    /\ raw = << >>
    /\ uniq = << >>
    /\ segs = << >>
    /\ scale = NoScale
    /\ result = << >>
    /\ ret = 0
    /\ ran = {}
    /\ first = << >>
    /\ bw \in SUBSET Grid
    /\ skel = {}
    /\ sk_img = bw
    /\ sk_iter = 0
    /\ sk_pc = "loop"
    /\ cleaned = {}
    /\ KompasIdle

\* an iteration that goes on although the eroded mask is empty
Iterate_nobreak ==
    /\ sk_pc = "loop"
    /\ sk_iter < MaxIter
    /\ LET eroded == erode(sk_img)
           opened == dilate(eroded)
           temp == subtract(sk_img, opened)
       IN  /\ skel' = bitwise_or(skel, temp)
           /\ sk_img' = eroded
           /\ sk_iter' = sk_iter + 1
           /\ sk_pc' = IF sk_iter' = MaxIter THEN "return" ELSE "loop"
    /\ UNCHANGED bw
    /\ UNCHANGED besides_skeletonize

\* vectorize.py:29-36: one iteration of the loop; the loop is left at the
\* break or when range(300) is exhausted
Iterate ==
    /\ sk_pc = "loop"
    /\ sk_iter < MaxIter
    /\ LET eroded == erode(sk_img)
           opened == dilate(eroded)
           temp == subtract(sk_img, opened)
       IN  /\ skel' = bitwise_or(skel, temp)
           /\ sk_img' = eroded
           /\ sk_iter' = sk_iter + 1
           /\ sk_pc' = IF countNonZero(sk_img') = 0 \/ sk_iter' = MaxIter
                       THEN "return" ELSE "loop"
    /\ UNCHANGED bw
    /\ UNCHANGED besides_skeletonize

\* vectorize.py:38
ReturnSkel ==
    /\ sk_pc = "return"
    /\ sk_pc' = "done"
    /\ UNCHANGED <<bw, skel, sk_img, sk_iter>>
    /\ UNCHANGED besides_skeletonize

NextSkel ==
    \/ Iterate
    \/ ReturnSkel

SpecSkel == InitSkel /\ [][NextSkel]_vars

-----------------------------------------------------------------------------
(* The region of the foreground (vectorize.py:57-73), with the cleaned mask
   as a set of pixels <<x, y>> *)

\* the pixels of a filled rectangle
Rect(x0, x1, y0, y1) == (x0..x1) \X (y0..y1)

\* cleaned holds whole connected components of at least min_area pixels:
\* nothing, or a filled rectangle of that area
CleanedMasks ==
    {{}} \cup
    { Rect(x0, x1, y0, y1) :
        x0 \in 0..(RegionW - 1), x1 \in 0..(RegionW - 1),
        y0 \in 0..(RegionH - 1), y1 \in 0..(RegionH - 1) }

LargeEnough(m) == m = {} \/ Cardinality(m) >= min_area(<<RegionH, RegionW>>)

\* xs.min(), xs.max(), ys.min(), ys.max()
SetMin(S) == CHOOSE a \in S : \A b \in S : a <= b

SetMax(S) == CHOOSE a \in S : \A b \in S : a >= b

BoundsOf(m) ==
    [min_x |-> SetMin({p[1] : p \in m}), max_x |-> SetMax({p[1] : p \in m}),
     min_y |-> SetMin({p[2] : p \in m}), max_y |-> SetMax({p[2] : p \in m})]

\* cleaned[min_y:max_y, min_x:max_x], in the coordinates of the crop: a
\* slice ends before its upper index
Crop(m, b) ==
    { <<p[1] - b.min_x, p[2] - b.min_y>> :
        p \in {q \in m : /\ b.min_x <= q[1] /\ q[1] < b.max_x
                          /\ b.min_y <= q[2] /\ q[2] < b.max_y} }

\* the state after vectorize.py:61, for the cleaned masks of the grid
InitRegion ==
    /\ CAD_BOX = [x0 |-> 30, y0 |-> 40, w |-> 150, h |-> 100]
    /\ pc = "where"
    /\ max_segments = 220
    /\ cv2 = "ok"
    /\ img = "image"
    /\ npix = 0
    /\ box = NoBox
    /\ lines = << >>
    /\ raw = << >>
    /\ uniq = << >>
    /\ segs = << >>
    /\ scale = NoScale
    /\ result = << >>
    /\ ret = 0
    /\ ran = {"import", "imread", "clean"}
    /\ first = << >>
    /\ bw = {} /\ skel = {} /\ sk_img = {} /\ sk_iter = 0 /\ sk_pc = "idle"
    /\ cleaned \in {m \in CleanedMasks : LargeEnough(m)}
    /\ KompasIdle

\* vectorize.py:63-68: the foreground coordinates and their extremes
Where ==
    /\ pc = "where"
    /\ npix' = Cardinality(cleaned)
    /\ IF npix' < 20
       THEN /\ ReturnEmpty(65)
            /\ UNCHANGED box
       ELSE /\ box' = BoundsOf(cleaned)
            /\ pc' = "crop"
            /\ UNCHANGED <<result, ret>>
    /\ UNCHANGED <<CAD_BOX, max_segments, cv2, img, lines, raw, uniq, segs,
                   scale, ran, first, skelvars, cleaned, kompasvars>>

\* vectorize.py:69-73: the crop, and the call of _skeletonize on it
CropRegion ==
    /\ pc = "crop"
    /\ ran' = ran \cup {"region"}
    /\ IF roi_size(box) = 0
       THEN /\ ReturnEmpty(71)
            /\ UNCHANGED skelvars
       ELSE /\ bw' = Crop(cleaned, box)
            /\ skel' = {}
            /\ sk_img' = bw'
            /\ sk_iter' = 0
            /\ sk_pc' = "loop"
            /\ pc' = "skeleton"
            /\ UNCHANGED <<result, ret>>
    /\ UNCHANGED <<CAD_BOX, max_segments, cv2, img, npix, box, lines, raw,
                   uniq, segs, scale, first, cleaned, kompasvars>>

NextRegion ==
    \/ Where
    \/ CropRegion

SpecRegion == InitRegion /\ [][NextRegion]_vars

-----------------------------------------------------------------------------
(* KompasExporter (kompas_api.py) and DrawingEngine (engine.py).  The
   automation objects are the environment: every call on them can answer
   in each way the code distinguishes. *)

\* the least drawn count that _create_cdw_v7 / _create_cdw_v5 accept
MinDrawn == 20

\* the longest list under package["geometry_segments"]
MaxEntries == 21

\* an entry of the list: a dict with numeric x1, y1, x2, y2, something that
\* is no dict, or a dict whose coordinates float() cannot take
Segs(n) == [i \in 1..n |-> "seg"]

SegmentLists ==
    {Segs(n) : n \in {0} \cup ((MinDrawn - 1)..MaxEntries)}
    \cup {[Segs(MaxEntries) EXCEPT ![j] = k] :
            j \in {1, MaxEntries}, k \in {"notdict", "badcoords"}}

\* package["geometry_segments"]: no such key, a value that is no list, a list
GeometryValues ==
    {NoGeometry, [kind |-> "notalist", entries |-> << >>]}
    \cup {[kind |-> "list", entries |-> l] : l \in SegmentLists}

\* what getattr(draw_obj, name, None) and the call of the method can give
DrawObjects ==
    { <<"truthy", "absent", "absent">>,
      <<"absent", "absent", "None">>,
      <<"falsy", "raises", "truthy">>,
      <<"falsy", "falsy", "falsy">>,
      <<"raises", "falsy", "absent">>,
      <<"absent", "absent", "absent">> }

\* kompas_api.py:114-130: ksLineSeg, LineSeg, ksLine in turn, from method i
\* on, ok as it stands
RECURSIVE TryMethods(_, _, _)
TryMethods(answers, i, ok) ==
    IF i > Len(answers) THEN ok
    ELSE IF answers[i] \in {"absent", "raises"} THEN TryMethods(answers, i + 1, ok)
    ELSE IF answers[i] \in {"truthy", "None"} THEN TRUE
    ELSE TryMethods(answers, i + 1, FALSE)

\* kompas_api.py:105-133: the loop over the entries, from entry i on; acc
\* holds the indices counted so far.  The object answers as obj for every
\* entry except entry bad, on which every method raises.
RECURSIVE DrawLoop(_, _, _, _, _)
DrawLoop(segments, obj, bad, i, acc) ==
    IF i > Len(segments) THEN acc
    ELSE IF segments[i] # "seg" THEN DrawLoop(segments, obj, bad, i + 1, acc)
    ELSE LET answers == IF i = bad THEN <<"raises", "raises", "raises">> ELSE obj
         IN  DrawLoop(segments, obj, bad, i + 1,
                      IF TryMethods(answers, 1, FALSE) THEN Append(acc, i) ELSE acc)

\* kompas_api.py:99-135; the count returned is the length of the result
draw_segments_on_object(obj, bad, pkg) ==
    LET segments == IF pkg.geometry_segments.kind = "absent"
                    THEN [kind |-> "list", entries |-> << >>]
                    ELSE pkg.geometry_segments
    IN  IF segments.kind # "list" THEN << >>
        ELSE DrawLoop(segments.entries, obj, bad, 1, << >>)

\* the entries on which the methods can be made to raise: none, the first,
\* the last
BadEntries(pkg) ==
    IF pkg.geometry_segments.kind # "list" THEN {0}
    ELSE {0, 1, Len(pkg.geometry_segments.entries)}

\* path.exists() and path.stat().st_size > 0
NonEmpty(f) == f \in {"old", "saved"}

\* kompas_api.py:143-151 and 206-216: the first attempt that gives a
\* document; an attempt that raises or gives nothing is passed over
RECURSIVE FirstGood(_, _)
FirstGood(answers, i) ==
    IF i > Len(answers) THEN FALSE
    ELSE IF answers[i] = "good" THEN TRUE
    ELSE FirstGood(answers, i + 1)

CreateAnswers == [1..3 -> {"raises", "nothing", "good"}]

\* what SaveAs / ksSaveDocument can do: raise, return without writing, write
\* the drawing, leave an empty file
SaveAnswers == {"raises", "nothing", "written", "empty"}

FileAfter(f, answer) ==
    IF answer = "written" THEN "saved"
    ELSE IF answer = "empty" THEN "empty"
    ELSE f

\* kompas_api.py:168-175: the three SaveAs attempts from attempt i on, with
\* the file as it is; gives the result and the file
RECURSIVE SaveLoop(_, _, _)
SaveLoop(answers, i, f) ==
    IF i > Len(answers) THEN [ok |-> FALSE, file |-> f]
    ELSE IF answers[i] = "raises" THEN SaveLoop(answers, i + 1, f)
    ELSE IF NonEmpty(FileAfter(f, answers[i]))
         THEN [ok |-> TRUE, file |-> FileAfter(f, answers[i])]
         ELSE SaveLoop(answers, i + 1, FileAfter(f, answers[i]))

\* the packages another caller can pass to export
DirectPackages ==
    {[source |-> "direct", geometry_segments |-> g] : g \in GeometryValues}

\* a call can start when none is under way
Callable == k_pc \in {"idle", "returned", "built"}

\* the locals of a new call; a drawing saved by an earlier call is an old file
NewCall ==
    /\ cdw_file' = IF cdw_file = "saved" THEN "old" ELSE cdw_file
    /\ created_by' = "none"
    /\ drawn' = NoDrawn
    /\ errors' = << >>
    /\ export_result' = NoExportResult
    /\ files' = {}
    /\ warnings' = << >>
    /\ build_result' = NoBuildResult

\* a build that puts twenty segments into its package
build_from_image_with_segments ==
    /\ Callable
    /\ NewCall
    /\ package' = [source |-> "image",
                   geometry_segments |-> [kind |-> "list", entries |-> Segs(MinDrawn)]]
    /\ origin' = "engine"
    /\ k_pc' = "persist"
    /\ UNCHANGED spw_file
    /\ UNCHANGED besides_kompas

\* engine.py:56-82: the package of build_from_image
build_from_image ==
    /\ Callable
    /\ NewCall
    /\ package' = [source |-> "image", geometry_segments |-> NoGeometry]
    /\ origin' = "engine"
    /\ k_pc' = "persist"
    /\ UNCHANGED spw_file
    /\ UNCHANGED besides_kompas

\* engine.py:84-114: the package of build_from_prompt
build_from_prompt ==
    /\ Callable
    /\ NewCall
    /\ package' = [source |-> "prompt", geometry_segments |-> NoGeometry]
    /\ origin' = "engine"
    /\ k_pc' = "persist"
    /\ UNCHANGED spw_file
    /\ UNCHANGED besides_kompas

\* engine.py:146-184: validation, the three files, the call of export
persist_artifacts ==
    /\ k_pc = "persist"
    /\ \E w \in {<< >>, <<"validation">>} : warnings' = w
    /\ files' = {"drawing_package.json", "specification.csv",
                 "kompas_macro_template.py"}
    /\ k_pc' = "export"
    /\ UNCHANGED <<package, origin, cdw_file, spw_file, created_by, drawn,
                   errors, export_result, build_result>>
    /\ UNCHANGED besides_kompas

\* export called from outside the engine
export_direct ==
    /\ Callable
    /\ NewCall
    /\ \E p \in DirectPackages : package' = p
    /\ origin' = "direct"
    /\ k_pc' = "export"
    /\ UNCHANGED spw_file
    /\ UNCHANGED besides_kompas

\* kompas_api.py:26-32, 75-77: the paths, and the import of win32com
export ==
    /\ k_pc = "export"
    /\ \E imported \in BOOLEAN :
         IF imported
         THEN k_pc' = "v7" /\ UNCHANGED errors
         ELSE k_pc' = "fallback" /\ errors' = <<"ImportError">>
    /\ UNCHANGED <<package, origin, cdw_file, spw_file, created_by, drawn,
                   export_result, files, warnings, build_result>>
    /\ UNCHANGED besides_kompas

\* kompas_api.py:80-82, 138-151: Dispatch of the v7 application, Documents,
\* and the three Add attempts
create_cdw_v7 ==
    /\ k_pc = "v7"
    /\ \/ /\ errors' = Append(errors, "v7")
          /\ k_pc' = "v5"
       \/ /\ UNCHANGED errors
          /\ \E docs \in {"None", "object"}, adds \in CreateAnswers :
               k_pc' = IF docs = "object" /\ FirstGood(adds, 1)
                       THEN "v7_draw" ELSE "v5"
    /\ UNCHANGED <<package, origin, cdw_file, spw_file, created_by, drawn,
                   export_result, files, warnings, build_result>>
    /\ UNCHANGED besides_kompas

\* kompas_api.py:153-166: the drawing object and the segments drawn on it
draw_v7 ==
    /\ k_pc = "v7_draw"
    /\ \E obj \in DrawObjects, bad \in BadEntries(package) :
         /\ drawn' = [drawn EXCEPT !.v7 = draw_segments_on_object(obj, bad, package),
                                   !.on = @ \cup {"v7"}]
         /\ k_pc' = IF Len(drawn'.v7) < MinDrawn THEN "v5" ELSE "v7_save"
    /\ UNCHANGED <<package, origin, cdw_file, spw_file, created_by, errors,
                   export_result, files, warnings, build_result>>
    /\ UNCHANGED besides_kompas

\* kompas_api.py:168-175 and 83-84: the SaveAs attempts, then the
\* specification document, whose creation can raise
save_v7 ==
    /\ k_pc = "v7_save"
    /\ \E saves \in [1..3 -> SaveAnswers] :
         LET r == SaveLoop(saves, 1, cdw_file) IN
         /\ cdw_file' = r.file
         /\ IF r.ok
            THEN \/ /\ errors' = Append(errors, "v7")
                    /\ k_pc' = "v5"
                    /\ UNCHANGED <<spw_file, created_by>>
                 \/ /\ \E f \in {spw_file, "present"} : spw_file' = f
                    /\ created_by' = "v7"
                    /\ k_pc' = "created"
                    /\ UNCHANGED errors
            ELSE /\ k_pc' = "v5"
                 /\ UNCHANGED <<spw_file, created_by, errors>>
    /\ UNCHANGED <<package, origin, drawn, export_result, files, warnings,
                   build_result>>
    /\ UNCHANGED besides_kompas

\* kompas_api.py:89-91, 203-216: Dispatch of the v5 application, Document2D,
\* and the three ksCreateDocument attempts
create_cdw_v5 ==
    /\ k_pc = "v5"
    /\ \/ /\ errors' = Append(errors, "v5")
          /\ k_pc' = "fallback"
       \/ /\ UNCHANGED errors
          /\ \E creates \in CreateAnswers :
               k_pc' = IF FirstGood(creates, 1) THEN "v5_draw" ELSE "fallback"
    /\ UNCHANGED <<package, origin, cdw_file, spw_file, created_by, drawn,
                   export_result, files, warnings, build_result>>
    /\ UNCHANGED besides_kompas

\* kompas_api.py:218-220
draw_v5 ==
    /\ k_pc = "v5_draw"
    /\ \E obj \in DrawObjects, bad \in BadEntries(package) :
         /\ drawn' = [drawn EXCEPT !.v5 = draw_segments_on_object(obj, bad, package),
                                   !.on = @ \cup {"v5"}]
         /\ k_pc' = IF Len(drawn'.v5) < MinDrawn THEN "fallback" ELSE "v5_save"
    /\ UNCHANGED <<package, origin, cdw_file, spw_file, created_by, errors,
                   export_result, files, warnings, build_result>>
    /\ UNCHANGED besides_kompas

\* kompas_api.py:222-226 and 92-93: ksSaveDocument, whose exception is
\* passed over, then the test of the file
save_v5 ==
    /\ k_pc = "v5_save"
    /\ \E answer \in SaveAnswers :
         /\ cdw_file' = FileAfter(cdw_file, answer)
         /\ IF NonEmpty(cdw_file')
            THEN /\ \E f \in {spw_file, "present"} : spw_file' = f
                 /\ created_by' = "v5"
                 /\ k_pc' = "created"
            ELSE /\ k_pc' = "fallback"
                 /\ UNCHANGED <<spw_file, created_by>>
    /\ UNCHANGED <<package, origin, drawn, errors, export_result, files,
                   warnings, build_result>>
    /\ UNCHANGED besides_kompas

\* where export returns to
AfterExport == IF origin = "engine" THEN "exported" ELSE "returned"

\* kompas_api.py:37-45
return_created ==
    /\ k_pc = "created"
    /\ export_result' =
         [success |-> TRUE,
          native_cdw_path |-> "cdw",
          native_spw_path |-> IF spw_file = "present" THEN "spw" ELSE "None",
          fallback_cdw_payload_path |-> "None",
          fallback_spw_payload_path |-> "None",
          message |-> "created"]
    /\ k_pc' = AfterExport
    /\ UNCHANGED <<package, origin, cdw_file, spw_file, created_by, drawn,
                   errors, files, warnings, build_result>>
    /\ UNCHANGED besides_kompas

\* kompas_api.py:46-72 and 97: the RuntimeError, or an exception of the
\* import, ends in the fallback payloads
return_fallback ==
    /\ k_pc = "fallback"
    /\ files' = files \cup {"cdw.fallback.json", "spw.fallback.json"}
    /\ export_result' =
         [success |-> FALSE,
          native_cdw_path |-> "None",
          native_spw_path |-> "None",
          fallback_cdw_payload_path |-> "cdw.fallback.json",
          fallback_spw_payload_path |-> "spw.fallback.json",
          message |-> "failed"]
    /\ k_pc' = AfterExport
    /\ UNCHANGED <<package, origin, cdw_file, spw_file, created_by, drawn,
                   errors, warnings, build_result>>
    /\ UNCHANGED besides_kompas

\* engine.py:205-219: (opened_in_kompas, open_message); Popen can raise
open_generated_drawing(path, f, popen_ok) ==
    IF path = "None" THEN <<FALSE, "skipped: no native cdw">>
    ELSE IF f \in {"absent"} THEN <<FALSE, "skipped: file not found">>
    ELSE IF popen_ok THEN <<TRUE, "opened">>
    ELSE <<FALSE, "not opened">>

\* engine.py:185-203
finish_build ==
    /\ k_pc = "exported"
    /\ \E popen_ok \in BOOLEAN :
         LET opened == open_generated_drawing(export_result.native_cdw_path,
                                              cdw_file, popen_ok)
             w1 == IF ~export_result.success
                   THEN Append(warnings, export_result.message) ELSE warnings
             w2 == IF ~opened[1] /\ opened[2] # ""
                   THEN Append(w1, opened[2]) ELSE w1
         IN  /\ warnings' = w2
             /\ build_result' =
                  [package_path |-> "drawing_package.json",
                   specification_path |-> "specification.csv",
                   macro_template_path |-> "kompas_macro_template.py",
                   cdw_path |-> export_result.native_cdw_path,
                   spw_path |-> export_result.native_spw_path,
                   fallback_cdw_payload_path |-> export_result.fallback_cdw_payload_path,
                   fallback_spw_payload_path |-> export_result.fallback_spw_payload_path,
                   warnings |-> w2,
                   opened_in_kompas |-> opened[1],
                   open_message |-> opened[2]]
    /\ k_pc' = "built"
    /\ UNCHANGED <<package, origin, cdw_file, spw_file, created_by, drawn,
                   errors, export_result, files>>
    /\ UNCHANGED besides_kompas

NextKompas ==
    \/ build_from_image
    \/ build_from_prompt
    \/ persist_artifacts
    \/ export_direct
    \/ export
    \/ create_cdw_v7
    \/ draw_v7
    \/ save_v7
    \/ create_cdw_v5
    \/ draw_v5
    \/ save_v5
    \/ return_created
    \/ return_fallback
    \/ finish_build

SpecKompas == Init /\ [][NextKompas]_vars

-----------------------------------------------------------------------------
(* Properties *)

returned == pc = "done"

\* the raw candidate an output Segment derives from
RawOfSegment(g) == raw[g.src]

Dx(s) == s[3] - s[1]

Dy(s) == s[4] - s[2]

Sign(n) == IF n > 0 THEN 1 ELSE IF n < 0 THEN -1 ELSE 0

\* a point with coordinates x / scale.den, y / scale.den is in CAD_BOX
InCadBox(x, y) ==
    /\ CAD_BOX.x0 * scale.den <= x
    /\ x <= (CAD_BOX.x0 + CAD_BOX.w) * scale.den
    /\ CAD_BOX.y0 * scale.den <= y
    /\ y <= (CAD_BOX.y0 + CAD_BOX.h) * scale.den

\* the candidates of segs have no extent on an axis: the span is floored
SpanFloored ==
    \/ SeqMax(xs2(segs)) = SeqMin(xs2(segs))
    \/ SeqMax(ys2(segs)) = SeqMin(ys2(segs))

\* C1: every Segment that extract_segments returns has both endpoints
\* inside CAD_BOX, also when the span of an axis is floored to 1.0.
C1_Containment ==
    returned =>
        \A i \in 1..Len(result) :
            /\ InCadBox(result[i].x1, result[i].y1)
            /\ InCadBox(result[i].x2, result[i].y2)

\* Segments were returned from candidates with no extent on an axis
C1_Witness ==
    /\ returned /\ result # << >> /\ SpanFloored
    /\ max_segments = 220

\* the rounded endpoints of a candidate, whatever their order
EndpointSet(s) ==
    { <<round_half(s[1]), round_half(s[2])>>,
      <<round_half(s[3]), round_half(s[4])>> }

\* C2: no two Segments of the output derive from snapped candidates that
\* have the same canonical key (the same two rounded endpoints, in either
\* order).
C2_NoDuplicates ==
    returned =>
        \A i, j \in 1..Len(result) :
            i # j => EndpointSet(snap_angle(RawOfSegment(result[i])))
                     # EndpointSet(snap_angle(RawOfSegment(result[j])))

\* two surviving candidates had the same key, endpoints swapped or not,
\* and one Segment came out
C2_Witness ==
    /\ returned /\ Len(result) = 1 /\ Len(raw) = 2
    /\ Survives(snap_angle(raw[1]), box) /\ Survives(snap_angle(raw[2]), box)
    /\ snap_angle(raw[1])[1] = snap_angle(raw[2])[3]
    /\ snap_angle(raw[1]) # snap_angle(raw[2])
    /\ max_segments = 220

\* C3 as stated: for every max_segments, negative ones included, the
\* returned list has at most max_segments entries.
C3_CapAnyInteger == returned => Len(result) <= max_segments

\* C3, amended: for every max_segments >= 0 the returned list has at most
\* max_segments entries.
C3_CapRespected == returned /\ max_segments >= 0 => Len(result) <= max_segments

\* the cap cut a candidate
C3_Witness ==
    /\ returned /\ max_segments = 1 /\ Len(uniq) = 2 /\ Len(result) = 1

\* C4: an invocation with the input of the recorded one ends as the
\* recorded one did: the same return, the same Segments in the same order.
C4_Determinism ==
    pc \in {"done", "raised"} /\ first # << >> /\ Input = first[1].input
        => Outcome = first[1].out

\* the recorded input was run again and returned Segments
C4_Witness ==
    /\ returned /\ first # << >> /\ Input = first[1].input
    /\ Len(result) = 2

\* C5: extract_segments never ends by raising an exception.
C5_NoFault == pc # "raised"

\* C6: when the import fails or the reader returns no image, the call
\* returns the empty list and no later stage has run.
C6_UnreadableInput ==
    cv2 = "ImportError" \/ img = "None" =>
        /\ returned
        /\ result = << >>
        /\ ran \subseteq {"import", "imread"}

\* the reader returned no image
C6_Witness == returned /\ img = "None" /\ ret = 49

\* the stages that follow a stage
StagesAfter(stage) ==
    CASE stage = "clean" ->
            {"region", "skeleton", "hough", "filter", "dedup", "order", "normalize"}
      [] stage = "region" ->
            {"skeleton", "hough", "filter", "dedup", "order", "normalize"}
      [] stage = "hough" -> {"filter", "dedup", "order", "normalize"}
      [] stage = "dedup" -> {"order", "normalize"}

\* the call has returned [] and no stage after the given one has run
ShortCircuitAt(stage) ==
    /\ returned
    /\ result = << >>
    /\ ran \cap StagesAfter(stage) = {}

\* C7: fewer than 20 foreground pixels, an empty crop, no line, or no
\* surviving candidate: the call returns [] there and runs no later stage.
C7_ShortCircuit ==
    /\ "clean" \in ran /\ npix < 20 => ShortCircuitAt("clean")
    /\ "region" \in ran /\ roi_size(box) = 0 => ShortCircuitAt("region")
    /\ "hough" \in ran /\ lines = << >> => ShortCircuitAt("hough")
    /\ "dedup" \in ran /\ uniq = << >> => ShortCircuitAt("dedup")

\* lines were detected and the filters left none
C7_Witness == returned /\ "dedup" \in ran /\ uniq = << >> /\ Len(raw) = 2

\* C8: a Segment from a raw candidate in the horizontal window has
\* y1 = y2, one from a raw candidate in the vertical window has x1 = x2.
C8_AxisSnap ==
    returned =>
        \A i \in 1..Len(result) :
            LET r == RawOfSegment(result[i]) IN
            /\ IsHorizontal(Dx(r), Dy(r)) => result[i].y1 = result[i].y2
            /\ IsVertical(Dx(r), Dy(r)) => result[i].x1 = result[i].x2

\* a slanted candidate of each window came out
C8_Witness ==
    /\ returned /\ Len(result) = 2
    /\ \E i, j \in 1..2 :
        /\ IsHorizontal(Dx(RawOfSegment(result[i])), Dy(RawOfSegment(result[i])))
        /\ Dy(RawOfSegment(result[i])) # 0
        /\ IsVertical(Dx(RawOfSegment(result[j])), Dy(RawOfSegment(result[j])))
        /\ Dx(RawOfSegment(result[j])) # 0

\* the candidate is in a 45-degree window and in no axis window
InDiagonalWindow(r) ==
    /\ IsDiagonal(Dx(r), Dy(r))
    /\ ~IsHorizontal(Dx(r), Dy(r))
    /\ ~IsVertical(Dx(r), Dy(r))

\* C9: a candidate in a 45-degree window is stored with its first endpoint
\* and the signs of its deltas kept and |dx| = |dy|, and its Segment has
\* |dx| = |dy|.
C9_DiagonalSnap ==
    /\ \A k \in 1..Len(uniq) :
        LET r == raw[uniq[k].src]
            v == uniq[k].val
        IN  InDiagonalWindow(r) =>
                /\ v[1] = r[1] /\ v[2] = r[2]
                /\ Sign(Dx(v)) = Sign(Dx(r)) /\ Sign(Dy(v)) = Sign(Dy(r))
                /\ Abs(Dx(v)) = Abs(Dy(v))
    /\ \A i \in 1..Len(result) :
        InDiagonalWindow(RawOfSegment(result[i])) =>
            Abs(result[i].x2 - result[i].x1) = Abs(result[i].y2 - result[i].y1)

\* a candidate that was not at 45 degrees came out, beside another Segment
C9_Witness ==
    /\ returned /\ Len(result) = 2
    /\ \E i \in 1..2 :
        /\ InDiagonalWindow(RawOfSegment(result[i]))
        /\ Abs(Dx(RawOfSegment(result[i]))) # Abs(Dy(RawOfSegment(result[i])))
        /\ span_x(segs) # span_y(segs)

\* the coordinates of the output Segments
OutXs == [j \in 1..(2 * Len(result)) |->
            IF j <= Len(result) THEN result[j].x1 ELSE result[j - Len(result)].x2]

OutYs == [j \in 1..(2 * Len(result)) |->
            IF j <= Len(result) THEN result[j].y1 ELSE result[j - Len(result)].y2]

\* width and height of the bounding box of the output, times scale.den
OutWidth == SeqMax(OutXs) - SeqMin(OutXs)

OutHeight == SeqMax(OutYs) - SeqMin(OutYs)

\* C10 as stated: the bounding box of a non-empty output has the
\* width / height ratio of the input Region.
C10_AspectOfRegion ==
    returned /\ result # << >> =>
        OutWidth * (box.max_y - box.min_y) = OutHeight * (box.max_x - box.min_x)

\* C10, amended: the bounding box of a non-empty output has the
\* width / height ratio of the bounding box of the ordered, capped
\* candidates (sx0..sx1 by sy0..sy1).
C10_AspectOfCandidates ==
    returned /\ result # << >> =>
        OutWidth * (SeqMax(ys2(segs)) - SeqMin(ys2(segs)))
            = OutHeight * (SeqMax(xs2(segs)) - SeqMin(xs2(segs)))

\* two Segments whose bounding box is not as the Region is
C10_Witness ==
    /\ returned /\ Len(result) = 2 /\ ~SpanFloored
    /\ span_x(segs) * (box.max_y - box.min_y)
        # span_y(segs) * (box.max_x - box.min_x)

\* the endpoints of the output Segments, as a sequence of points
OutPoints ==
    [j \in 1..(2 * Len(result)) |->
        IF j <= Len(result)
        THEN <<result[j].x1, result[j].y1>>
        ELSE <<result[j - Len(result)].x2, result[j - Len(result)].y2>>]

\* every endpoint of the output is the endpoint of exactly two Segments
ClosedLoop ==
    \A j \in 1..Len(OutPoints) :
        Cardinality({k \in 1..Len(OutPoints) : OutPoints[k] = OutPoints[j]}) = 2

\* C11: when the detector returns the four sides of a rectangle outline
\* whose bounding box is the region, exactly 4 Segments come out, two
\* horizontal and two vertical, and they form a closed loop.
C11_RectangleScenario ==
    returned /\ lines = RectangleSides(box) /\ max_segments = 220 =>
        /\ Len(result) = 4
        /\ Cardinality({i \in 1..Len(result) : result[i].y1 = result[i].y2}) = 2
        /\ Cardinality({i \in 1..Len(result) : result[i].x1 = result[i].x2}) = 2
        /\ ClosedLoop

\* C12: when the detector returns one 45-degree line from corner to corner
\* of the region, exactly one Segment comes out, with |dx| = |dy|.
C12_DiagonalScenario ==
    /\ returned /\ max_segments = 220
    /\ box.max_x - box.min_x = box.max_y - box.min_y
    /\ lines = CornerToCorner(box)
    =>
        /\ Len(result) = 1
        /\ Abs(result[1].x2 - result[1].x1) = Abs(result[1].y2 - result[1].y1)

\* C13: when the skeleton and line-voting strategy yields no candidate, a
\* secondary strategy runs before the filters and its candidates are merged
\* with the primary's.
C13_Fallback ==
    "hough" \in ran /\ lines = << >> => "secondary" \in ran

\* the length of s is at least max(8, 0.03 diag) and at most 0.75 diag
LengthInBounds(s, b) ==
    /\ Len2(s) >= 64
    /\ 10000 * Len2(s) >= 9 * Diag2(b)
    /\ 16 * Len2(s) <= 9 * Diag2(b)

\* C14 as stated: no output Segment derives from a raw candidate whose
\* length, before the snap, is outside the bounds.
C14_RawLengthBounds ==
    returned =>
        \A i \in 1..Len(result) : LengthInBounds(RawOfSegment(result[i]), box)

\* C14, amended: no candidate whose length after snap_angle is outside the
\* bounds reaches the dict, the ordered list or the output.
C14_SnappedLengthBounds ==
    /\ \A k \in 1..Len(uniq) : LengthInBounds(uniq[k].val, box)
    /\ \A i \in 1..Len(segs) : LengthInBounds(segs[i].val, box)
    /\ \A i \in 1..Len(result) :
        LengthInBounds(snap_angle(RawOfSegment(result[i])), box)

\* of two raw candidates one was rejected for its snapped length, and the
\* other came out although its raw length is outside the bounds
C14_Witness ==
    /\ returned /\ Len(raw) = 2 /\ Len(result) = 1
    /\ ~LengthInBounds(RawOfSegment(result[1]), box)
    /\ \E j \in 1..2 : ~LengthInBounds(snap_angle(raw[j]), box)

\* int(1.5% of a span)
MarginOf(span) == (span * 15) \div 1000

\* both endpoints of s lie in the margin band of one edge of the region
InOneBand(s, b) ==
    LET mx == MarginOf(b.max_x - b.min_x)
        my == MarginOf(b.max_y - b.min_y)
    IN  \/ s[1] <= b.min_x + mx /\ s[3] <= b.min_x + mx
        \/ s[1] >= b.max_x - mx /\ s[3] >= b.max_x - mx
        \/ s[2] <= b.min_y + my /\ s[4] <= b.min_y + my
        \/ s[2] >= b.max_y - my /\ s[4] >= b.max_y - my

\* an endpoint of s lies in the band of the left or the right edge
TouchesVerticalBand(s, b) ==
    LET mx == MarginOf(b.max_x - b.min_x)
    IN  \E e \in {s[1], s[3]} : e <= b.min_x + mx \/ e >= b.max_x - mx

\* C15: of the snapped candidates that pass the length bounds, the one in
\* the band of one edge is not written to the dict, every other one has
\* its key in the dict, and nothing in the dict or the output lies in a
\* band.
C15_BorderExclusion ==
    "dedup" \in ran =>
        /\ \A j \in 1..Len(raw) :
            LET s == snap_angle(raw[j]) IN
            LengthInBounds(s, box) =>
                /\ InOneBand(s, box) => \A k \in 1..Len(uniq) : uniq[k].src # j
                /\ ~InOneBand(s, box) =>
                    \E k \in 1..Len(uniq) :
                        EndpointSet(uniq[k].val) = EndpointSet(s)
        /\ \A k \in 1..Len(uniq) : ~InOneBand(uniq[k].val, box)
        /\ \A i \in 1..Len(result) :
            ~InOneBand(snap_angle(RawOfSegment(result[i])), box)

\* with a margin of a pixel: a candidate one pixel off the right edge was
\* rejected, and one with a single endpoint in a band came out
C15_Witness ==
    /\ returned /\ Len(raw) = 2 /\ Len(result) = 1
    /\ MarginOf(box.max_x - box.min_x) = 1
    /\ TouchesVerticalBand(snap_angle(RawOfSegment(result[1])), box)
    /\ \E j \in 1..2 :
        /\ LengthInBounds(snap_angle(raw[j]), box)
        /\ InOneBand(snap_angle(raw[j]), box)
        /\ raw[j][1] = box.max_x - 1

\* a sorts no later than b: vertical midpoint, then horizontal midpoint,
\* then the longer one first (midpoints through sums, lengths through squares)
ReadsBefore(a, b) ==
    LET ya == a[2] + a[4]
        yb == b[2] + b[4]
        xa == a[1] + a[3]
        xb == b[1] + b[3]
    IN  \/ ya < yb
        \/ ya = yb /\ xa < xb
        \/ ya = yb /\ xa = xb /\ Len2(a) >= Len2(b)

\* the dict entries that the cap cut
CutEntries == {k \in 1..Len(uniq) : \A i \in 1..Len(segs) : segs[i].src # uniq[k].src}

\* C16: after ordering and cap the candidates are in reading order and
\* every kept one reads before every cut one; for max_segments >= 0 the
\* first max_segments are kept; the output follows the same order, so its
\* sheet-space vertical midpoint never increases.
C16_ReadingOrder ==
    "order" \in ran =>
        /\ \A i, j \in 1..Len(segs) : i < j => ReadsBefore(segs[i].val, segs[j].val)
        /\ \A i \in 1..Len(segs) : \A k \in CutEntries :
            ReadsBefore(segs[i].val, uniq[k].val)
        /\ max_segments >= 0 => Len(segs) = Min2(max_segments, Len(uniq))
        /\ Len(segs) + Cardinality(CutEntries) = Len(uniq)
        /\ \A i, j \in 1..Len(result) :
            i < j =>
                /\ ReadsBefore(snap_angle(RawOfSegment(result[i])),
                               snap_angle(RawOfSegment(result[j])))
                /\ result[i].y1 + result[i].y2 >= result[j].y1 + result[j].y2

\* two candidates with the same midpoint: the longer one, detected later,
\* was kept and the shorter one was cut
C16_Witness ==
    /\ returned /\ max_segments = 1 /\ Len(uniq) = 2 /\ Len(result) = 1
    /\ result[1].src = 2
    /\ uniq[1].val[2] + uniq[1].val[4] = uniq[2].val[2] + uniq[2].val[4]
    /\ uniq[1].val[1] + uniq[1].val[3] = uniq[2].val[1] + uniq[2].val[3]
    /\ Len2(uniq[1].val) < Len2(uniq[2].val)


\* the endpoints of the ordered, capped candidates, in pixels
SegPoints ==
    UNION { { <<segs[i].val[1], segs[i].val[2]>>,
              <<segs[i].val[3], segs[i].val[4]>> } : i \in 1..Len(segs) }

\* the least x and the greatest y of the candidates, and their extents
LeftmostX == CHOOSE x \in {p[1] : p \in SegPoints} : \A p \in SegPoints : x <= p[1]

LowestY == CHOOSE y \in {p[2] : p \in SegPoints} : \A p \in SegPoints : y >= p[2]

ExtentX ==
    (CHOOSE x \in {p[1] : p \in SegPoints} : \A p \in SegPoints : x >= p[1])
    - LeftmostX

ExtentY ==
    LowestY
    - (CHOOSE y \in {p[2] : p \in SegPoints} : \A p \in SegPoints : y <= p[2])

\* scale.den times the sheet position of the pixel point p
SheetX(p) == CAD_BOX.x0 * scale.den + (p[1] - LeftmostX) * scale.num

SheetY(p) == CAD_BOX.y0 * scale.den + (LowestY - p[2]) * scale.num

\* the sheet endpoints of the Segment g, scale.den times
OutEnds(g) == << <<g.x1, g.y1>>, <<g.x2, g.y2>> >>

\* C17: every endpoint (x, y) of the ordered, capped candidates is mapped to
\* (x0 + (x - sx0) * s, y0 + (sy1 - y) * s) with the one factor
\* s = min(w / span_x, h / span_y), sx0 the least x and sy1 the greatest y of
\* the candidates; a larger pixel y never gives a larger sheet y, the
\* leftmost point lands on x = x0 and the lowest pixel point on y = y0.
C17_FitToBox ==
    returned /\ "normalize" \in ran =>
        LET spx == IF ExtentX < 1 THEN 1 ELSE ExtentX
            spy == IF ExtentY < 1 THEN 1 ELSE ExtentY
        IN  /\ scale.den > 0
            /\ scale.num * spx <= CAD_BOX.w * scale.den
            /\ scale.num * spy <= CAD_BOX.h * scale.den
            /\ \/ scale.num * spx = CAD_BOX.w * scale.den
               \/ scale.num * spy = CAD_BOX.h * scale.den
            /\ \A i \in 1..Len(result) :
                 \E k \in 1..Len(segs) :
                    /\ segs[k].src = result[i].src
                    /\ result[i].x1 = SheetX(<<segs[k].val[1], segs[k].val[2]>>)
                    /\ result[i].y1 = SheetY(<<segs[k].val[1], segs[k].val[2]>>)
                    /\ result[i].x2 = SheetX(<<segs[k].val[3], segs[k].val[4]>>)
                    /\ result[i].y2 = SheetY(<<segs[k].val[3], segs[k].val[4]>>)
            /\ \A i, j \in 1..Len(result) : \A a, b \in 1..2 :
                 \A k, m \in 1..Len(segs) :
                    /\ segs[k].src = result[i].src
                    /\ segs[m].src = result[j].src
                    /\ segs[k].val[2 * a] > segs[m].val[2 * b]
                    => OutEnds(result[i])[a][2] <= OutEnds(result[j])[b][2]
            /\ \E i \in 1..Len(result) : \E a \in 1..2 :
                 OutEnds(result[i])[a][1] = CAD_BOX.x0 * scale.den
            /\ \E i \in 1..Len(result) : \E a \in 1..2 :
                 OutEnds(result[i])[a][2] = CAD_BOX.y0 * scale.den

\* two Segments were returned, drawn from candidates that differ in both the
\* least x and the greatest y
C17_Witness ==
    /\ returned /\ Len(result) = 2 /\ Len(segs) = 2
    /\ Min2(segs[1].val[1], segs[1].val[3]) # Min2(segs[2].val[1], segs[2].val[3])
    /\ Max2(segs[1].val[2], segs[1].val[4]) # Max2(segs[2].val[2], segs[2].val[4])
    /\ ExtentX > 1 /\ ExtentY > 1

\* the snapped candidates, in detection order
Snapped == [j \in 1..Len(raw) |-> snap_angle(raw[j])]

\* the last element of a non-empty set of indices
LastOf(S) == CHOOSE k \in S : \A m \in S : m <= k

\* the dict holds, for every key among the survivors surv, the last survivor
\* of that key (sn: the snapped candidates, keys: their endpoint sets)
HoldsLastOfEachKey(sn, keys, surv) ==
    /\ \A j \in surv :
         \E e \in 1..Len(uniq) :
            /\ uniq[e].src = LastOf({k \in surv : keys[k] = keys[j]})
            /\ uniq[e].val = sn[uniq[e].src]
            /\ \A f \in 1..Len(uniq) :
                 EndpointSet(uniq[f].val) = keys[j] => f = e
    /\ \A e \in 1..Len(uniq) : uniq[e].src \in surv
    /\ Len(uniq) = Cardinality({keys[j] : j \in surv})

LastWriteWinsOf(sn) ==
    HoldsLastOfEachKey(sn,
                       [j \in 1..Len(raw) |-> EndpointSet(sn[j])],
                       {j \in 1..Len(raw) : Survives(sn[j], box)})

\* C18: among the filtered candidates that share one canonical key the
\* deduplicator retains exactly one, with the coordinates of the last such
\* candidate in detection order; candidates with other keys are unaffected.
C18_LastWriteWins ==
    "dedup" \in ran /\ "order" \notin ran => LastWriteWinsOf(Snapped)

\* two candidates with different coordinates shared a key and the second
\* one was retained
C18_Witness ==
    /\ pc = "order"
    /\ Len(raw) = 2
    /\ Survives(Snapped[1], box) /\ Survives(Snapped[2], box)
    /\ EndpointSet(Snapped[1]) = EndpointSet(Snapped[2])
    /\ Snapped[1] # Snapped[2]
    /\ Len(uniq) = 1
    /\ uniq[1].src = 2 /\ uniq[1].val = Snapped[2]

\* the capped candidates have no extent in x, or none in y
NoExtentX == SeqMax(xs2(segs)) = SeqMin(xs2(segs))

NoExtentY == SeqMax(ys2(segs)) = SeqMin(ys2(segs))

\* C19: when the capped candidates have zero extent on an axis, the span of
\* that axis is floored to 1, the scale factor is finite and strictly
\* positive, no division by zero occurs and the Segments are still emitted.
C19_DegenerateSpan ==
    "normalize" \in ran /\ segs # << >> /\ SpanFloored =>
        /\ pc = "done"
        /\ NoExtentX => span_x(segs) = 1 /\ scale.num <= CAD_BOX.w * scale.den
        /\ NoExtentY => span_y(segs) = 1 /\ scale.num <= CAD_BOX.h * scale.den
        /\ scale.den >= 1
        /\ scale.num > 0
        /\ Len(result) = Len(segs)
        /\ result # << >>

\* one vertical candidate was left after the cap and was emitted
C19_Witness ==
    /\ returned /\ Len(uniq) = 2 /\ Len(segs) = 1 /\ NoExtentX
    /\ Len(result) = 1
    /\ result[1].x1 = result[1].x2
    /\ result[1].y1 # result[1].y2

\* _skeletonize has left its loop
LoopLeft == sk_pc \in {"return", "done"}

\* C20: _skeletonize ends after at most 300 erode/open iterations and stops
\* at the end of the first iteration whose eroded mask is empty; the mask
\* being thinned never gains a pixel from one iteration to the next, and
\* every pixel of the returned skeleton is a foreground pixel of the input.
C20_BoundedThinning ==
    /\ [](/\ sk_iter <= MaxIter
          /\ sk_pc = "loop" /\ sk_iter >= 1 => sk_img # {}
          /\ LoopLeft => sk_iter >= 1 /\ (sk_img = {} \/ sk_iter = MaxIter)
          /\ sk_pc = "loop" => sk_iter < MaxIter
          /\ skel \subseteq bw)
    /\ [][sk_img' \subseteq sk_img /\ sk_iter' >= sk_iter]_vars

\* the mask was thinned to nothing in more than one iteration and a
\* skeleton was returned
C20_Witness ==
    /\ sk_pc = "done" /\ sk_iter >= 2 /\ sk_iter < MaxIter
    /\ sk_img = {} /\ skel # {} /\ skel # bw

\* the pixel p of the image lies inside the crop handed to _skeletonize
InAnalysedRegion(p) ==
    /\ 0 <= p[1] - box.min_x /\ p[1] - box.min_x < box.max_x - box.min_x
    /\ 0 <= p[2] - box.min_y /\ p[2] - box.min_y < box.max_y - box.min_y

\* C21: the region cropped from the cleaned mask and passed to thinning is
\* the bounding box of the foreground: every foreground pixel of the cleaned
\* mask, those of row max_y and column max_x included, lies inside it.
C21_RegionCoversForeground ==
    pc = "skeleton" =>
        \A p \in cleaned :
            /\ InAnalysedRegion(p)
            /\ <<p[1] - box.min_x, p[2] - box.min_y>> \in bw

\* what the crop does hold: the foreground except row max_y and column max_x
C21_CropOfRegion ==
    pc = "skeleton" =>
        /\ box = BoundsOf(cleaned)
        /\ \A p \in cleaned :
             <<p[1] - box.min_x, p[2] - box.min_y>> \in bw
             <=> p[1] # box.max_x /\ p[2] # box.max_y
        /\ Cardinality(bw) < Cardinality(cleaned)

\* export has returned its KompasExportResult
ExportReturned == k_pc \in {"returned", "exported", "built"}

\* the entries counted on an interface are valid entries of the list, each
\* counted once and in list order
CountedInOrder(d) ==
    /\ \A i \in 1..Len(d) :
         /\ d[i] \in 1..Len(package.geometry_segments.entries)
         /\ package.geometry_segments.entries[d[i]] = "seg"
    /\ \A i, j \in 1..Len(d) : i < j => d[i] < d[j]

\* at least MinDrawn entries were drawn through one of the interfaces
EnoughDrawn ==
    \/ Len(drawn.v7) >= MinDrawn /\ CountedInOrder(drawn.v7)
    \/ Len(drawn.v5) >= MinDrawn /\ CountedInOrder(drawn.v5)

NativeResult ==
    /\ export_result.success
    /\ export_result.native_cdw_path = "cdw"
    /\ export_result.fallback_cdw_payload_path = "None"
    /\ export_result.fallback_spw_payload_path = "None"

FallbackResult ==
    /\ ~export_result.success
    /\ export_result.native_cdw_path = "None"
    /\ export_result.native_spw_path = "None"
    /\ export_result.fallback_cdw_payload_path = "cdw.fallback.json"
    /\ export_result.fallback_spw_payload_path = "spw.fallback.json"
    /\ {"cdw.fallback.json", "spw.fallback.json"} \subseteq files

\* C22: export returns success=True only if at least 20 entries of
\* package['geometry_segments'] were drawn through the v7 or else the v5
\* interface (each counted once, in list order) and a non-empty .cdw file
\* was saved, and then native_cdw_path is set and both fallback paths are
\* None; in every other case it returns success=False with both native
\* paths None and both fallback payload paths set.
C22_InsufficientGeometry ==
    ExportReturned =>
        /\ export_result.success => EnoughDrawn /\ cdw_file = "saved" /\ NativeResult
        /\ ~(EnoughDrawn /\ cdw_file = "saved") => FallbackResult

\* what does hold: success needs enough entries drawn on the interface that
\* reported the document and a non-empty file at the path, whoever wrote it
C22_FileExists ==
    ExportReturned =>
        /\ NativeResult \/ FallbackResult
        /\ export_result.success =>
             /\ created_by \in {"v7", "v5"}
             /\ Len(drawn[created_by]) >= MinDrawn
             /\ CountedInOrder(drawn[created_by])
             /\ NonEmpty(cdw_file)
        /\ ~(EnoughDrawn /\ NonEmpty(cdw_file)) => FallbackResult
        /\ CountedInOrder(drawn.v7) /\ CountedInOrder(drawn.v5)
        /\ errors # << >> /\ k_pc = "returned" /\ ~EnoughDrawn => FallbackResult

\* twice the mapped length |dx| + |dy| of the candidate e, times scale.den
MappedLength2(e) ==
    2 * scale.num * (Abs(e.val[1] - e.val[3]) + Abs(e.val[2] - e.val[4]))

\* the distinct canonical keys among the filtered candidates
DistinctKeys == {uniq[k].key : k \in 1..Len(uniq)}

\* C23: every candidate that survives the length filter, border exclusion,
\* dedup and the cap has a mapped length |dx| + |dy| of at least 0.5, so the
\* final drop removes none and, for max_segments >= 0, the output length is
\* min(number of distinct canonical keys, max_segments).
C23_DropNeverFires ==
    "normalize" \in ran =>
        /\ returned =>
             /\ \A i \in 1..Len(segs) : MappedLength2(segs[i]) >= scale.den
             /\ Len(result) = Len(segs)
        /\ max_segments >= 0 =>
             /\ returned
             /\ Len(result) = Min2(Cardinality(DistinctKeys), max_segments)

\* what does hold: no candidate is dropped, and whenever an output exists
\* its length is that minimum
C23_NoDropInAnyOutput ==
    returned /\ "normalize" \in ran =>
        /\ \A i \in 1..Len(segs) :
             /\ MappedLength2(segs[i]) >= scale.den
             /\ ~SubResolution(MapSegment(CAD_BOX, segs, scale, segs[i]), scale)
        /\ Len(result) = Len(segs)
        /\ \A i \in 1..Len(result) : result[i].src = segs[i].src
        /\ max_segments >= 0 =>
             Len(result) = Min2(Cardinality(DistinctKeys), max_segments)

\* the build has returned its BuildResult
Built == k_pc = "built"

\* the position of the first occurrence of m in the sequence w, 0 if none
FirstAt(w, m) ==
    IF \E i \in 1..Len(w) : w[i] = m
    THEN CHOOSE i \in 1..Len(w) : w[i] = m /\ \A j \in 1..(i - 1) : w[j] # m
    ELSE 0

\* C24: a package assembled by build_from_image or build_from_prompt has no
\* 'geometry_segments' entry, so the exporter draws 0 segments on both
\* interfaces and returns success=False; the BuildResult has cdw_path None
\* and opened_in_kompas False, and its warnings hold the export failure
\* message and the skipped-auto-open message, after the package,
\* specification and macro files have been written.
C24_NoNativeDrawing ==
    /\ origin = "engine" =>
         /\ package.source \in {"image", "prompt"}
         /\ package.geometry_segments.kind = "absent"
         /\ drawn.v7 = << >> /\ drawn.v5 = << >>
         /\ k_pc \notin {"v7_save", "v5_save", "created"}
         /\ k_pc \in {"export", "v7", "v7_draw", "v5", "v5_draw", "fallback",
                      "exported", "built"} =>
               {"drawing_package.json", "specification.csv",
                "kompas_macro_template.py"} \subseteq files
         /\ k_pc \in {"exported", "built"} => FallbackResult
    /\ Built =>
         /\ build_result.cdw_path = "None"
         /\ build_result.spw_path = "None"
         /\ ~build_result.opened_in_kompas
         /\ build_result.open_message = "skipped: no native cdw"
         /\ FirstAt(build_result.warnings, "failed") > 0
         /\ FirstAt(build_result.warnings, "skipped: no native cdw")
              > FirstAt(build_result.warnings, "failed")
         /\ build_result.package_path = "drawing_package.json"
         /\ build_result.specification_path = "specification.csv"
         /\ build_result.macro_template_path = "kompas_macro_template.py"
         /\ build_result.fallback_cdw_payload_path = "cdw.fallback.json"
         /\ build_result.fallback_spw_payload_path = "spw.fallback.json"

\* a build returned after both interfaces had a document to draw on, with
\* a drawing of an earlier export still in output_dir
C24_Witness ==
    /\ Built
    /\ package.source = "image"
    /\ drawn.on = {"v7", "v5"}
    /\ NonEmpty(cdw_file)
    /\ Len(build_result.warnings) = 3
=============================================================================
